---- MODULE Spec2Model ----
(***************************************************************************)
(* Model of habits_tracker/cli.py: a click command group that opens an     *)
(* SQLite file, creates the schema when the file has no tables, and then   *)
(* runs one of the commands add, list or exec.  One process invocation at  *)
(* a time; the file (tables, habits) outlives the processes.               *)
(*                                                                         *)
(* Text is a sequence of chunks (one-character strings, plus a few chunks  *)
(* that stand for a longer piece of SQL), so that the statement            *)
(* habit_add builds by interpolation is lexed and parsed the way SQLite    *)
(* lexes and parses it.                                                    *)
(***************************************************************************)
EXTENDS Integers, Sequences, FiniteSets, TLC

VARIABLES
    tables,      \* names of the relations committed in the database file
    habits,      \* committed rows of relation habits (4-tuples of values)
    pc,          \* "idle" | "group" | "command" | "exit"
    cmd,         \* the command line of the running invocation
    connects,    \* sqlite3.connect calls made by the running invocation
    ctxConn,     \* context.obj.connection (0: not set)
    openConns,   \* connections that are open
    inTx,        \* the connection has an open (implicit) transaction
    working,     \* rows of habits as the connection sees them
    outcome,     \* "running" | "ok" | name of the exception that left the handler
    result,      \* rows returned by the command's fetchall()
    printed,     \* Habit instances printed by list
    runs,        \* invocations started so far
    pre,         \* history: habits when the invocation started
    initCalls,   \* history: _check_database calls in this invocation
    created,     \* history: "no" | "ok" | "failed": create_tables in this invocation
    usedConn,    \* history: connections the command executed statements on
    initLog,     \* history: outcomes of the first two initializations of the file
    lastAdd,     \* history: input of the add that ran last on the file, if fresh
    fvValues,    \* argument of a direct Habit.from_values call
    fvResult     \* its result

vars == <<tables, habits, pc, cmd, connects, ctxConn, openConns, inTx, working,
          outcome, result, printed, runs, pre, initCalls, created, usedConn,
          initLog, lastAdd, fvValues, fvResult>>

(***************************************************************************)
(* Bounds                                                                  *)
(***************************************************************************)
MaxRuns == 4
MaxFVLen == 5

(***************************************************************************)
(* Values: Python objects / SQLite storage classes, one record shape.      *)
(***************************************************************************)
Q == "\""

S(s) == [t |-> "str", s |-> s, n |-> 0]
I(n) == [t |-> "int", s |-> <<>>, n |-> n]
B(b) == [t |-> "bool", s |-> <<>>, n |-> IF b THEN 1 ELSE 0]
Null == [t |-> "null", s |-> <<>>, n |-> 0]

\* str(x) as used by the f-string in habit_add
PyStr(v) ==
    CASE v.t = "str" -> v.s
      [] v.t = "bool" -> IF v.n = 1 THEN <<"True">> ELSE <<"False">>
      [] v.t = "int" -> IF v.n = 0 THEN <<"0">> ELSE IF v.n = 1 THEN <<"1">> ELSE <<"2">>
      [] OTHER -> <<"None">>

(***************************************************************************)
(* Entity model: class Model / class Habit                                 *)
(***************************************************************************)
\* Habit.__fields__.keys(), in declaration order
HabitFields == <<"title", "description", "required", "negative">>

Habit(t, d, r, n) == [title |-> t, description |-> d, required |-> r, negative |-> n]

\* pydantic's str field: a str is taken as is, a number (bool included) is
\* rendered with str(), None is refused
StrCoercible(v) == v.t \in {"str", "int", "bool"}
StrCoerce(v) == PyStr(v)

\* pydantic's bool field: bool, the integers 0 and 1, and the strings it
\* reads as true or false (compared in lower case)
BoolTrueStrs == {<<"True">>, <<"1">>}
BoolFalseStrs == {<<"False">>, <<"0">>}
BoolCoercible(v) ==
    \/ v.t = "bool"
    \/ v.t = "int" /\ v.n \in {0, 1}
    \/ v.t = "str" /\ v.s \in (BoolTrueStrs \cup BoolFalseStrs)
BoolCoerce(v) ==
    IF v.t = "str" THEN v.s \in BoolTrueStrs ELSE v.n = 1

Min(a, b) == IF a <= b THEN a ELSE b

\* zip(fields, values): pairs up to the shorter of the two
Zip(fields, values) ==
    [i \in 1..Min(Len(fields), Len(values)) |-> <<fields[i], values[i]>>]

NoHabit == Habit(<<>>, <<>>, FALSE, FALSE)

\* cls(**data): every declared field must be present and coercible
Construct(data) ==
    IF /\ Len(data) = Len(HabitFields)
       /\ StrCoercible(data[1][2]) /\ StrCoercible(data[2][2])
       /\ BoolCoercible(data[3][2]) /\ BoolCoercible(data[4][2])
    THEN [ok |-> TRUE,
          habit |-> Habit(StrCoerce(data[1][2]), StrCoerce(data[2][2]),
                          BoolCoerce(data[3][2]), BoolCoerce(data[4][2]))]
    ELSE [ok |-> FALSE, habit |-> NoHabit]

from_values(values) == Construct(Zip(HabitFields, values))

(***************************************************************************)
(* Schema script                                                           *)
(***************************************************************************)
\* _CREATE_TABLES: three CREATE TABLE statements, each a list of items
\* (column definitions and table constraints), each item a list of tokens.
CREATE_TABLES == <<
    [table |-> "habits", items |-> <<
        <<"title", "varchar", "(", "255", ")", "UNIQUE", "NOT", "NULL">>,
        <<"description", "varchar", "(", "2048", ")">>,
        <<"require", "bool", "NOT", "NULL">>,
        <<"negative", "bool", "NOT", "NULL">>,
        <<"PRIMARY", "KEY", "(", "title", ")">> >>],
    [table |-> "habit_records", items |-> <<
        <<"uuid", "varchar", "(", "255", ")", "UNIQUE", "NOT", "NULL">>,
        <<"habit", "int", "NOT", "NULL">>,
        <<"added", "datetime", "NOT", "NULL">>,
        <<"PRIMARY_KEY", "(", "uuid", ")">>,
        <<"FOREGIN", "KEY", "(", "habit", ")", "REFERENCES", "habits", "(", "title", ")">> >>],
    [table |-> "habit_names", items |-> <<
        <<"habit", "int", "NOT", "NULL">>,
        <<"name", "varchar", "(", "255", ")", "UNIQUE", "NOT", "NULL">>,
        <<"PRIMARY_KEY", "(", "name", ")">>,
        <<"FOREGIN", "KEY", "(", "habit", ")", "REFERENCES", "habits", "(", "title", ")">> >>] >>

SchemaTables == {CREATE_TABLES[i].table : i \in 1..Len(CREATE_TABLES)}

Numbers == {"255", "2048"}
ColumnNames == {"title", "uuid", "name", "habit"}
ConstraintWords == {"UNIQUE", "NOT", "NULL"}

\* SQLite's grammar for one item of a CREATE TABLE body.  A table
\* constraint starts with PRIMARY KEY ( or FOREIGN KEY (.  Anything else is
\* a column definition: a name, type words, optionally ( number ) after at
\* least one type word, then column constraints.
TableConstraintOk(item) ==
    \/ /\ Len(item) = 5
       /\ SubSeq(item, 1, 3) = <<"PRIMARY", "KEY", "(">>
       /\ item[4] \in ColumnNames /\ item[5] = ")"
    \/ /\ Len(item) = 10
       /\ SubSeq(item, 1, 3) = <<"FOREIGN", "KEY", "(">>
       /\ item[4] \in ColumnNames /\ item[5] = ")" /\ item[6] = "REFERENCES"
       /\ item[8] = "(" /\ item[9] \in ColumnNames /\ item[10] = ")"

ParenAt(item) ==
    IF \E i \in 1..Len(item) : item[i] = "("
    THEN CHOOSE i \in 1..Len(item) : item[i] = "(" /\ \A j \in 1..(i-1) : item[j] # "("
    ELSE 0

ColumnDefOk(item) ==
    LET p == ParenAt(item) IN
    IF p = 0
    THEN \A i \in 1..Len(item) : item[i] \notin {")"}
    ELSE /\ p >= 3
         /\ Len(item) >= p + 2
         /\ item[p + 1] \in Numbers
         /\ item[p + 2] = ")"
         /\ \A i \in (p + 3)..Len(item) : item[i] \in ConstraintWords

ItemOk(item) == TableConstraintOk(item) \/ ColumnDefOk(item)

StatementOk(st) == \A i \in 1..Len(st.items) : ItemOk(st.items[i])

\* cursor.executescript: the statements run one after another in
\* autocommit mode; the first one that fails raises and ends the script,
\* and what ran before it stays.
RECURSIVE executescript(_, _, _)
executescript(script, i, tbls) ==
    IF i > Len(script) THEN [tables |-> tbls, err |-> "none"]
    ELSE IF ~StatementOk(script[i]) \/ script[i].table \in tbls
         THEN [tables |-> tbls, err |-> "OperationalError"]
         ELSE executescript(script, i + 1, tbls \cup {script[i].table})

\* create_tables(connection): executescript, then commit
create_tables(tbls) == executescript(CREATE_TABLES, 1, tbls)

\* _check_database(database): connect, read the catalog, create the
\* schema when the catalog has no table
check_database(tbls) ==
    IF tbls = {}
    THEN [tables |-> create_tables(tbls).tables, err |-> create_tables(tbls).err,
          created |-> TRUE]
    ELSE [tables |-> tbls, err |-> "none", created |-> FALSE]

(***************************************************************************)
(* The INSERT statement of habit_add, as SQLite reads it                   *)
(***************************************************************************)
From(s, i) == SubSeq(s, i, Len(s))

\* chunks that stand for a longer piece of SQL
OnConflictNothing == "ON CONFLICT DO NOTHING"
OnConflictUpdate == "ON CONFLICT(title) DO UPDATE SET description="

\* values = ", ".join([f'"{x}"' for x in kwargs.values()])
RECURSIVE JoinQuoted(_)
JoinQuoted(vals) ==
    IF Len(vals) = 0 THEN <<>>
    ELSE IF Len(vals) = 1 THEN <<Q>> \o PyStr(vals[1]) \o <<Q>>
    ELSE <<Q>> \o PyStr(vals[1]) \o <<Q, ",">> \o JoinQuoted(From(vals, 2))

\* insert = f"INSERT INTO habits ({fields}) VALUES ({values});" ; the
\* text up to the opening parenthesis of VALUES is fixed and is left out
InsertText(vals) == JoinQuoted(vals) \o <<")", ";">>

StrTok(s) == [k |-> "str", s |-> s]
SymTok(c) == [k |-> "sym", s |-> <<c>>]
BadTok == [k |-> "bad", s |-> <<>>]

\* SQLite's tokenizer: a double quote opens a quoted token that runs to
\* the next double quote that is not doubled, a doubled one standing for
\* one quote character; -- starts a comment that runs to the end of the
\* line; a quoted token that is never closed is an error token.
RECURSIVE Lex(_, _, _, _, _)
Lex(text, i, inStr, cur, acc) ==
    IF i > Len(text)
    THEN IF inStr THEN Append(acc, BadTok) ELSE acc
    ELSE IF inStr
    THEN IF text[i] = Q
         THEN IF i + 1 <= Len(text) /\ text[i + 1] = Q
              THEN Lex(text, i + 2, TRUE, Append(cur, Q), acc)
              ELSE Lex(text, i + 1, FALSE, <<>>, Append(acc, StrTok(cur)))
         ELSE Lex(text, i + 1, TRUE, Append(cur, text[i]), acc)
    ELSE IF text[i] = Q THEN Lex(text, i + 1, TRUE, <<>>, acc)
    ELSE IF text[i] = "--" THEN acc
    ELSE Lex(text, i + 1, FALSE, <<>>, Append(acc, SymTok(text[i])))

Tokens(text) == Lex(text, 1, FALSE, <<>>, <<>>)

IndexOf(toks, tok) ==
    IF \E i \in 1..Len(toks) : toks[i] = tok
    THEN CHOOSE i \in 1..Len(toks) : toks[i] = tok /\ \A j \in 1..(i-1) : toks[j] # tok
    ELSE 0

\* expr ( , expr )* where an expr is a quoted token: with no column in
\* scope a double-quoted token is read as a string literal
ValueListOk(vs) ==
    /\ Len(vs) % 2 = 1
    /\ \A j \in 1..Len(vs) :
          IF j % 2 = 1 THEN vs[j].k = "str" ELSE vs[j] = SymTok(",")

ValuesOf(vs) == [j \in 1..((Len(vs) + 1) \div 2) |-> vs[2 * j - 1].s]

ParseError(e) == [err |-> e, values |-> <<>>, upsert |-> "none", set |-> <<>>]

\* what follows the closing parenthesis: nothing, or an upsert clause
ParseClause(rest, values) ==
    IF rest = <<>>
    THEN [err |-> "none", values |-> values, upsert |-> "none", set |-> <<>>]
    ELSE IF rest = <<SymTok(OnConflictNothing)>>
    THEN [err |-> "none", values |-> values, upsert |-> "nothing", set |-> <<>>]
    ELSE IF Len(rest) = 2 /\ rest[1] = SymTok(OnConflictUpdate) /\ rest[2].k = "str"
    THEN [err |-> "none", values |-> values, upsert |-> "update", set |-> rest[2].s]
    ELSE ParseError("OperationalError")

\* sqlite3_prepare on the text after "VALUES (", then the sqlite3 module's
\* check that nothing but blanks and comments follows the first statement
ParseInsert(text) ==
    LET toks == Tokens(text)
        rp == IndexOf(toks, SymTok(")"))
        vs == SubSeq(toks, 1, rp - 1)
        after == From(toks, rp + 1)
        semi == IndexOf(after, SymTok(";"))
        clause == IF semi = 0 THEN after ELSE SubSeq(after, 1, semi - 1)
        more == IF semi = 0 THEN <<>> ELSE From(after, semi + 1)
        first == ParseClause(clause, ValuesOf(vs))
    IN  IF rp = 0 \/ ~ValueListOk(vs) THEN ParseError("OperationalError")
        ELSE IF Len(ValuesOf(vs)) # Len(HabitFields) THEN ParseError("OperationalError")
        ELSE IF first.err # "none" THEN first
        ELSE IF more # <<>> THEN ParseError("ProgrammingError")
        ELSE first

\* column affinity: varchar columns keep text; the bool columns have
\* NUMERIC affinity, which turns text that reads as a number into a number
TextAffinity(s) == S(s)
NumericAffinity(s) ==
    IF s = <<"0">> THEN I(0) ELSE IF s = <<"1">> THEN I(1) ELSE S(s)

Row(vals) == <<TextAffinity(vals[1]), TextAffinity(vals[2]),
               NumericAffinity(vals[3]), NumericAffinity(vals[4])>>

Titles(rows) == {r[1] : r \in rows}

\* the row insert with the PRIMARY KEY / UNIQUE constraint on title and
\* the upsert clause, on the rows the connection sees
InsertRow(rows, row, upsert, set) ==
    IF row[1] \notin Titles(rows)
    THEN [err |-> "none", rows |-> rows \cup {row}]
    ELSE IF upsert = "nothing" THEN [err |-> "none", rows |-> rows]
    ELSE IF upsert = "update"
    THEN [err |-> "none",
          rows |-> {IF r[1] = row[1] THEN <<r[1], S(set), r[3], r[4]>> ELSE r : r \in rows}]
    ELSE [err |-> "IntegrityError", rows |-> rows]

\* cur.execute(insert) of habit_add on a connection that sees rows
ExecuteInsert(tbls, rows, vals) ==
    LET p == ParseInsert(InsertText(vals)) IN
    IF p.err = "OperationalError" \/ "habits" \notin tbls
    THEN [err |-> "OperationalError", rows |-> rows]
    ELSE IF p.err # "none" THEN [err |-> p.err, rows |-> rows]
    ELSE InsertRow(rows, Row(p.values), p.upsert, p.set)

(***************************************************************************)
(* Statements given to exec                                                *)
(***************************************************************************)
NoStmt == [sql |-> "", first |-> "", verb |-> "none"]

ExecStatements == {
    [sql |-> "SELECT COUNT(*) FROM habits", first |-> "SELECT", verb |-> "count"],
    [sql |-> "DELETE FROM habits", first |-> "DELETE", verb |-> "delete"],
    [sql |-> "UPDATE habits SET description='u'", first |-> "UPDATE", verb |-> "update"],
    [sql |-> "INSERT INTO habits VALUES ('b','',0,1)", first |-> "INSERT", verb |-> "insert"],
    [sql |-> "WITH c AS (SELECT 1) DELETE FROM habits", first |-> "WITH", verb |-> "delete"],
    [sql |-> "DROP TABLE habits", first |-> "DROP", verb |-> "drop"],
    [sql |-> "CREATE TABLE foo (a)", first |-> "CREATE", verb |-> "create"],
    [sql |-> "SELEC", first |-> "SELEC", verb |-> "syntax"] }

\* the sqlite3 module opens a transaction before a statement only when
\* the statement text starts with one of these keywords
IsDml(stmt) == stmt.first \in {"INSERT", "UPDATE", "DELETE", "REPLACE"}

ExecInsertedRow == <<S(<<"b">>), S(<<>>), I(0), I(1)>>

\* the rows of habits after the statement, on the rows the connection sees
Effect(verb, rows) ==
    CASE verb = "delete" -> [err |-> "none", rows |-> {}]
      [] verb = "drop" -> [err |-> "none", rows |-> {}]
      [] verb = "update" ->
            [err |-> "none", rows |-> {<<r[1], S(<<"u">>), r[3], r[4]>> : r \in rows}]
      [] verb = "insert" -> InsertRow(rows, ExecInsertedRow, "none", <<>>)
      [] OTHER -> [err |-> "none", rows |-> rows]

TablesAfter(verb, tbls) ==
    CASE verb = "drop" -> tbls \ {"habits"}
      [] verb = "create" -> tbls \cup {"foo"}
      [] OTHER -> tbls

\* cur.execute(command).fetchall() on a connection in the sqlite3 module's
\* default transaction mode: prepare, BEGIN when the statement is DML and
\* no transaction is open, step.  Without an open transaction the
\* statement commits by itself.
Execute(stmt, tbls, committed, view, tx) ==
    LET fail == [err |-> "OperationalError", tables |-> tbls, habits |-> committed,
                 working |-> view, inTx |-> tx, result |-> {}]
        e == Effect(stmt.verb, view)
        tx2 == tx \/ IsDml(stmt)
    IN  IF stmt.verb = "syntax" THEN fail
        ELSE IF stmt.verb # "create" /\ "habits" \notin tbls THEN fail
        ELSE IF stmt.verb = "create" /\ "foo" \in tbls THEN fail
        ELSE IF e.err # "none"
        THEN [fail EXCEPT !.err = e.err, !.inTx = tx2]
        ELSE [err |-> "none",
              tables |-> TablesAfter(stmt.verb, tbls),
              habits |-> IF tx2 THEN committed ELSE e.rows,
              working |-> e.rows,
              inTx |-> tx2,
              result |-> IF stmt.verb = "count" THEN {<<I(Cardinality(view))>>} ELSE {}]

(***************************************************************************)
(* Command lines                                                           *)
(***************************************************************************)
InjectNothing ==
    <<"x", Q, ",", Q, "False", Q, ",", Q, "False", Q, ")", OnConflictNothing, ";", "--">>
InjectUpdate ==
    <<"x", Q, ",", Q, "False", Q, ",", Q, "False", Q, ")", OnConflictUpdate, Q, "z", Q, ";", "--">>

TitleInputs == {<<"a">>, <<"b">>, <<"a", Q, "b">>, <<Q, Q>>}
DescriptionInputs == {<<>>, <<"d">>, InjectNothing, InjectUpdate}

NoCmd == [name |-> "none", title |-> <<>>, description |-> <<>>,
          require |-> FALSE, negative |-> FALSE, stmt |-> NoStmt]

AddCommands ==
    {[NoCmd EXCEPT !.name = "add", !.title = t, !.description = d,
                   !.require = r, !.negative = n] :
        t \in TitleInputs, d \in DescriptionInputs, r \in BOOLEAN, n \in BOOLEAN}
ListCommands == {[NoCmd EXCEPT !.name = "list"]}
ExecCommands == {[NoCmd EXCEPT !.name = "exec", !.stmt = st] : st \in ExecStatements}

CommandLines == AddCommands \cup ListCommands \cup ExecCommands

NoAdd == [valid |-> FALSE, habit |-> NoHabit]
NoResult == [called |-> FALSE, ok |-> FALSE, habit |-> NoHabit]

FVValues == {S(<<"a">>), S(<<"True">>), B(FALSE), I(1), I(2), Null}
Tuples(n) == [1..n -> FVValues]
FVInputs == UNION {Tuples(n) : n \in 3..MaxFVLen}

(***************************************************************************)
(* The program                                                             *)
(***************************************************************************)
Init ==
    /\ tables = {} /\ habits = {}
    /\ pc = "idle" /\ cmd = NoCmd
    /\ connects = 0 /\ ctxConn = 0 /\ openConns = {}
    /\ inTx = FALSE /\ working = {}
    /\ outcome = "none" /\ result = {} /\ printed = {}
    /\ runs = 0 /\ pre = {} /\ initCalls = 0 /\ created = "no"
    /\ usedConn = {} /\ initLog = <<>> /\ lastAdd = NoAdd
    /\ fvValues = <<>> /\ fvResult = NoResult

\* main(): a process starts with a command line
Invoke ==
    /\ pc = "idle" /\ runs < MaxRuns
    /\ \E c \in CommandLines : cmd' = c
    /\ pc' = "group"
    /\ runs' = runs + 1
    /\ pre' = habits
    /\ connects' = 0 /\ ctxConn' = 0 /\ openConns' = {}
    /\ inTx' = FALSE /\ working' = {}
    /\ outcome' = "running" /\ result' = {} /\ printed' = {}
    /\ initCalls' = 0 /\ created' = "no" /\ usedConn' = {}
    /\ UNCHANGED <<tables, habits, initLog, lastAdd, fvValues, fvResult>>

LogInit(log, ok, before, after) ==
    IF Len(log) < 2
    THEN Append(log, [kind |-> "init", ok |-> ok, before |-> before, after |-> after])
    ELSE log

\* commands() with the else of "if not db" lost: the default database is
\* checked and then the connection is taken from a second _check_database
CommandsNoElse ==
    /\ pc = "group"
    /\ LET r == check_database(tables) IN
        /\ connects' = connects + 2
        /\ initCalls' = initCalls + 2
        /\ openConns' = openConns \cup {connects + 1, connects + 2}
        /\ tables' = r.tables
        /\ created' = IF ~r.created THEN "no" ELSE IF r.err = "none" THEN "ok" ELSE "failed"
        /\ initLog' = LogInit(initLog, r.err = "none", tables, r.tables)
        /\ IF r.err = "none"
           THEN /\ ctxConn' = connects + 2
                /\ working' = habits
                /\ pc' = "command"
                /\ UNCHANGED outcome
           ELSE /\ outcome' = r.err
                /\ pc' = "exit"
                /\ UNCHANGED <<ctxConn, working>>
    /\ UNCHANGED <<habits, cmd, inTx, result, printed, runs, pre, usedConn, lastAdd,
                   fvValues, fvResult>>

\* commands(context, **kwargs): the group callback
Commands ==
    /\ pc = "group"
    /\ LET r == check_database(tables) IN
        /\ connects' = connects + 1
        /\ initCalls' = initCalls + 1
        /\ openConns' = openConns \cup {connects + 1}
        /\ tables' = r.tables
        /\ created' = IF ~r.created THEN "no" ELSE IF r.err = "none" THEN "ok" ELSE "failed"
        /\ initLog' = LogInit(initLog, r.err = "none", tables, r.tables)
        /\ IF r.err = "none"
           THEN /\ ctxConn' = connects + 1
                /\ working' = habits
                /\ pc' = "command"
                /\ UNCHANGED outcome
           ELSE /\ outcome' = r.err
                /\ pc' = "exit"
                /\ UNCHANGED <<ctxConn, working>>
    /\ UNCHANGED <<habits, cmd, inTx, result, printed, runs, pre, usedConn, lastAdd,
                   fvValues, fvResult>>

\* habit_add(context, **kwargs)
HabitAdd ==
    /\ pc = "command" /\ cmd.name = "add"
    /\ LET kwargs == <<S(cmd.title), S(cmd.description), B(cmd.require), B(cmd.negative)>>
           r == ExecuteInsert(tables, working, kwargs)
       IN  /\ usedConn' = usedConn \cup {ctxConn}
           /\ IF r.err = "none"
              THEN /\ working' = r.rows
                   /\ habits' = r.rows
                   /\ inTx' = FALSE
                   /\ outcome' = "ok"
              ELSE /\ outcome' = r.err
                   /\ inTx' = (r.err = "IntegrityError")
                   /\ UNCHANGED <<working, habits>>
    /\ lastAdd' = [valid |-> cmd.title # <<>> /\ S(cmd.title) \notin Titles(habits),
                   habit |-> Habit(cmd.title, cmd.description, cmd.require, cmd.negative)]
    /\ pc' = "exit"
    /\ UNCHANGED <<tables, cmd, connects, ctxConn, openConns, result, printed, runs, pre,
                   initCalls, created, initLog, fvValues, fvResult>>

\* habits_list(context)
HabitsList ==
    /\ pc = "command" /\ cmd.name = "list"
    /\ usedConn' = usedConn \cup {ctxConn}
    /\ IF "habits" \notin tables
       THEN /\ outcome' = "OperationalError"
            /\ UNCHANGED <<result, printed>>
       ELSE /\ result' = working
            /\ IF \A data \in working : from_values(data).ok
               THEN /\ printed' = {from_values(data).habit : data \in working}
                    /\ outcome' = "ok"
               ELSE /\ printed' = {}
                    /\ outcome' = "ValidationError"
    /\ pc' = "exit"
    /\ UNCHANGED <<tables, habits, cmd, connects, ctxConn, openConns, inTx, working, runs,
                   pre, initCalls, created, initLog, lastAdd, fvValues, fvResult>>

LogExec(log, before, after) ==
    IF Len(log) < 2 /\ before # after
    THEN Append(log, [kind |-> "exec", ok |-> TRUE, before |-> before, after |-> after])
    ELSE log

\* exec_sql() ending with con.commit(), as habit_add does
ExecSqlCommit ==
    /\ pc = "command" /\ cmd.name = "exec"
    /\ LET r == Execute(cmd.stmt, tables, habits, working, inTx) IN
        /\ usedConn' = usedConn \cup {ctxConn}
        /\ tables' = r.tables
        /\ habits' = IF r.err = "none" THEN r.working ELSE r.habits
        /\ working' = r.working
        /\ inTx' = IF r.err = "none" THEN FALSE ELSE r.inTx
        /\ result' = r.result
        /\ outcome' = IF r.err = "none" THEN "ok" ELSE r.err
        /\ initLog' = LogExec(initLog, tables, r.tables)
    /\ lastAdd' = NoAdd
    /\ pc' = "exit"
    /\ UNCHANGED <<cmd, connects, ctxConn, openConns, printed, runs, pre, initCalls,
                   created, fvValues, fvResult>>

\* exec_sql(context, command)
ExecSql ==
    /\ pc = "command" /\ cmd.name = "exec"
    /\ LET r == Execute(cmd.stmt, tables, habits, working, inTx) IN
        /\ usedConn' = usedConn \cup {ctxConn}
        /\ tables' = r.tables
        /\ habits' = r.habits
        /\ working' = r.working
        /\ inTx' = r.inTx
        /\ result' = r.result
        /\ outcome' = IF r.err = "none" THEN "ok" ELSE r.err
        /\ initLog' = LogExec(initLog, tables, r.tables)
    /\ lastAdd' = NoAdd
    /\ pc' = "exit"
    /\ UNCHANGED <<cmd, connects, ctxConn, openConns, printed, runs, pre, initCalls,
                   created, fvValues, fvResult>>

\* the process ends: the connection is closed and an open transaction is
\* rolled back
Exit ==
    /\ pc = "exit"
    /\ pc' = "idle"
    /\ openConns' = {}
    /\ inTx' = FALSE
    /\ working' = {}
    /\ UNCHANGED <<tables, habits, cmd, connects, ctxConn, outcome, result, printed, runs,
                   pre, initCalls, created, usedConn, initLog, lastAdd, fvValues, fvResult>>

Next == Invoke \/ Commands \/ HabitAdd \/ HabitsList \/ ExecSql \/ Exit

Spec == Init /\ [][Next]_vars

(***************************************************************************)
(* Habit.from_values called directly on a tuple of values                  *)
(***************************************************************************)
InitFV ==
    /\ tables = {} /\ habits = {}
    /\ pc = "idle" /\ cmd = NoCmd
    /\ connects = 0 /\ ctxConn = 0 /\ openConns = {}
    /\ inTx = FALSE /\ working = {}
    /\ outcome = "none" /\ result = {} /\ printed = {}
    /\ runs = 0 /\ pre = {} /\ initCalls = 0 /\ created = "no"
    /\ usedConn = {} /\ initLog = <<>> /\ lastAdd = NoAdd
    /\ fvValues \in FVInputs /\ fvResult = NoResult

FromValues ==
    /\ ~fvResult.called
    /\ fvResult' = [called |-> TRUE, ok |-> from_values(fvValues).ok,
                    habit |-> from_values(fvValues).habit]
    /\ UNCHANGED <<tables, habits, pc, cmd, connects, ctxConn, openConns, inTx, working,
                   outcome, result, printed, runs, pre, initCalls, created, usedConn,
                   initLog, lastAdd, fvValues>>

NextFV == FromValues

SpecFV == InitFV /\ [][NextFV]_vars

(***************************************************************************)
(* Properties                                                              *)
(***************************************************************************)
CommandRan == usedConn # {}
Finished == pc \in {"exit", "idle"} /\ runs > 0

\* C1: whenever store initialization returns a connection the store holds
\* exactly the relations habits, habit_records and habit_names; otherwise
\* initialization has failed with an error.
C1_ThreeRelationsOrError ==
    /\ pc = "command" => tables = {"habits", "habit_records", "habit_names"}
    /\ (pc = "exit" /\ ctxConn = 0) => outcome \notin {"ok", "running", "none"}

\* C2: schema creation is atomic: create_tables either creates and commits
\* all three relations or, when a statement of the script fails, leaves the
\* store without any relation.
C2_SchemaCreationAtomic ==
    /\ created = "ok" => {"habits", "habit_records", "habit_names"} \subseteq tables
    /\ created = "failed" => tables = {}

\* C3: initializing a fresh store twice is idempotent: the first call
\* initializes the store, the second call makes no schema change and does
\* not fail, and the relations after it are those after the first call.
C3_InitTwiceIdempotent ==
    /\ Len(initLog) >= 1 => initLog[1].ok
    /\ (Len(initLog) = 2 /\ initLog[2].kind = "init") =>
          /\ initLog[2].ok
          /\ initLog[2].after = initLog[2].before
          /\ initLog[2].after = initLog[1].after

\* C4: an add whose title is already in habits fails with an error and
\* leaves the persisted rows as they were, one row for that title.
C4_DuplicateAddRejected ==
    (Finished /\ cmd.name = "add" /\ CommandRan /\ S(cmd.title) \in Titles(pre)) =>
        /\ outcome # "ok"
        /\ habits = pre
        /\ Cardinality({r \in habits : r[1] = S(cmd.title)}) = 1

\* C5: round trip: after an add of (title, description, required,
\* negative) with a non-empty title that was not in the store, a list
\* prints a Habit equal to the input on all four fields.
C5_AddListRoundTrip ==
    (pc = "exit" /\ cmd.name = "list" /\ CommandRan /\ lastAdd.valid) =>
        /\ outcome = "ok"
        /\ lastAdd.habit \in printed

ClassifiedErrors == {"DuplicateHabitError", "MalformedRecordError", "StorageQueryError"}

\* C6: a store-level failure in add, list or exec leaves the command as a
\* classified error, never as an uncaught exception.
C6_FailuresClassified ==
    (Finished /\ CommandRan) => outcome \in {"ok"} \cup ClassifiedErrors

AllCoercible(values) ==
    /\ StrCoercible(values[1]) /\ StrCoercible(values[2])
    /\ BoolCoercible(values[3]) /\ BoolCoercible(values[4])

\* C7: Habit.from_values fails when the number of values is not 4 (fewer
\* or more) or a value cannot be coerced, and given 4 coercible values
\* returns the Habit with those values in declared order.
C7_FromValuesChecksCount ==
    fvResult.called =>
        IF Len(fvValues) # 4 THEN ~fvResult.ok
        ELSE IF ~AllCoercible(fvValues) THEN ~fvResult.ok
        ELSE /\ fvResult.ok
             /\ fvResult.habit.title = StrCoerce(fvValues[1])
             /\ fvResult.habit.description = StrCoerce(fvValues[2])
             /\ fvResult.habit.required = BoolCoerce(fvValues[3])
             /\ fvResult.habit.negative = BoolCoerce(fvValues[4])

\* C8: in invocations of add and list a persisted habit row is never
\* updated or deleted: every row persisted before a step is persisted,
\* with the same four values, after it.
C8_AddListKeepRows ==
    [][cmd'.name \in {"add", "list"} => habits \subseteq habits']_vars

\* C9: in every invocation the store is initialized exactly once, before
\* the command executes a statement; the command executes on the
\* connection initialization returned, and that connection is open while
\* the command runs.
C9_InitOnceBeforeCommand ==
    /\ pc = "group" => (initCalls = 0 /\ ~CommandRan)
    /\ pc \in {"command", "exit"} => initCalls = 1
    /\ pc = "command" => (ctxConn # 0 /\ ctxConn \in openConns)
    /\ CommandRan => (initCalls = 1 /\ ctxConn # 0 /\ usedConn = {ctxConn})
    /\ (CommandRan /\ pc = "exit") => ctxConn \in openConns

C9_Witness ==
    pc = "exit" /\ CommandRan /\ outcome = "ok" /\ initCalls = 1 /\ usedConn = {ctxConn}

\* C10 as stated: no row change made through exec survives the process;
\* add is the only command after which the persisted rows differ from
\* those before the invocation.
C10_OnlyAddPersists ==
    cmd.name \in {"exec", "list"} => habits = pre

\* C10, amended: exec never commits, so a statement whose text begins
\* with INSERT, UPDATE, DELETE or REPLACE changes rows only inside the
\* open transaction and the persisted rows stay those before the
\* invocation; list leaves them too.
C10_DmlKeywordNotPersisted ==
    /\ (cmd.name = "exec" /\ IsDml(cmd.stmt)) => habits = pre
    /\ cmd.name = "list" => habits = pre

C10_Witness ==
    /\ pc = "exit" /\ cmd.name = "exec" /\ IsDml(cmd.stmt) /\ outcome = "ok"
    /\ inTx /\ working # habits /\ habits = pre /\ habits # {}

====
